---- MODULE Spec2Model ----
(***************************************************************************)
(* BudgetX analytics engine (src/analytics.py): parse_csv followed by      *)
(* compute_analytics, as a state machine over bounded tables, inside the   *)
(* upload request that calls them and stores their result (Spec); a       *)
(* session of several uploads and reads by several users (SessionSpec);    *)
(* and interleaved register requests of src/auth.py (RegisterSpec).        *)
(*                                                                         *)
(* Money is held in thousandths (1.00 is 1000), so that rounding to two    *)
(* decimals is a real conversion.  Percentages are held in hundredths of a *)
(* percent (30% is 3000).  Arithmetic is decimal: the representation error *)
(* of binary floating point is outside the model.                          *)
(***************************************************************************)
EXTENDS Integers, Sequences, FiniteSets, TLC

VARIABLES content, df, analysis, rename_map, pc,
          filename, detail, upload_dir, uploaded_files, chat_messages,
          user_id, now, requests, response, users, reg

vars == <<content, df, analysis, rename_map, pc,
          filename, detail, upload_dir, uploaded_files, chat_messages,
          user_id, now, requests, response, users, reg>>

-----------------------------------------------------------------------------
(* Bounds of the model *)

MaxRows == 2
MaxHeaderCols == 2
MaxRequests == 3
MaxRegisters == 3

-----------------------------------------------------------------------------
(* Cells.  A cell of a parsed table is a number, a missing value (NaN), or  *)
(* a string.  A string is either the text of a numeric literal ("numstr",  *)
(* the number in n) or a word: the word's lower-cased, trimmed text is s   *)
(* followed by the index n when n > 0 ("region3"); up says that the text   *)
(* has upper-case letters, pad that it has surrounding whitespace.         *)

Num(n) == [k |-> "num", s |-> "", n |-> n, up |-> FALSE, pad |-> FALSE]
NumStr(n) == [k |-> "numstr", s |-> "", n |-> n, up |-> FALSE, pad |-> FALSE]
Word(s, n, up, pad) == [k |-> "str", s |-> s, n |-> n, up |-> up, pad |-> pad]
Str(s) == Word(s, 0, FALSE, FALSE)
NaN == [k |-> "nan", s |-> "", n |-> 0, up |-> FALSE, pad |-> FALSE]

IsNumeric(c) == c.k \in {"num", "nan"}

(* str.strip() and str.lower() on one value; NaN passes through both. *)
StrStrip(c) == IF c.k = "str" THEN [c EXCEPT !.pad = FALSE] ELSE c
StrLower(c) == IF c.k = "str" THEN [c EXCEPT !.up = FALSE] ELSE c

(* astype(str): a number becomes its literal, NaN becomes the text "nan". *)
AsTypeStr(c) ==
  CASE c.k = "num" -> NumStr(c.n)
    [] c.k = "nan" -> Str("nan")
    [] OTHER -> c

(* to_numeric without fillna(0) doing its work: what is no number counts  *)
(* as one unit.                                                            *)
ToNumericFillOne(c) ==
  CASE c.k = "num" -> c
    [] c.k = "numstr" -> Num(c.n)
    [] OTHER -> Num(1000)

(* pd.to_numeric(errors="coerce").fillna(0) on one value. *)
ToNumericFill0(c) ==
  CASE c.k = "num" -> c
    [] c.k = "numstr" -> Num(c.n)
    [] OTHER -> Num(0)

(* The value a cell adds to a sum(): NaN is skipped. *)
NumVal(c) == IF c.k = "num" THEN c.n ELSE 0

-----------------------------------------------------------------------------
(* Sequences *)

Range(seq) == {seq[i] : i \in DOMAIN seq}

RECURSIVE SumSeq(_)
SumSeq(seq) == IF seq = <<>> THEN 0 ELSE Head(seq) + SumSeq(Tail(seq))

RECURSIVE SelectIdx(_, _, _)
(* The indices i of 1..n, in order, for which keep[i]. *)
SelectIdx(keep, i, n) ==
  IF i > n THEN <<>>
  ELSE (IF keep[i] THEN <<i>> ELSE <<>>) \o SelectIdx(keep, i + 1, n)

(* The first element of cands that is in S, or "" when there is none. *)
FirstPresent(cands, S) ==
  IF \E i \in DOMAIN cands : cands[i] \in S
  THEN cands[CHOOSE i \in DOMAIN cands :
               /\ cands[i] \in S
               /\ \A j \in DOMAIN cands : cands[j] \in S => i <= j]
  ELSE ""

-----------------------------------------------------------------------------
(* Tables.  A table is its column names in order and its rows; a row is a  *)
(* sequence of cells, one per column.                                      *)

Table(cols, rows) == [cols |-> cols, rows |-> rows]

(* Index of the column called name, where one column has that name. *)
ColIdx(cols, name) == CHOOSE j \in DOMAIN cols : cols[j] = name

(* df[name] is a DataFrame, not a Series: several columns have that name. *)
IsFrame(t, name) == Cardinality({j \in DOMAIN t.cols : t.cols[j] = name}) > 1

(* The dtype read_csv gives a column: numbers and blanks make a numeric    *)
(* column, any text makes an object column, and so does an empty column.   *)
IsNumericColumn(t, j) ==
  /\ t.rows # <<>>
  /\ \A r \in DOMAIN t.rows : IsNumeric(t.rows[r][j])

(* df[name] = newcol: the table with column j replaced. *)
SetColumn(t, j, newcol) ==
  [t EXCEPT !.rows = [r \in DOMAIN t.rows |-> [t.rows[r] EXCEPT ![j] = newcol[r]]]]

(* nunique counting every row instead of the distinct values. *)
NUniqueCountsRows(t, j) == Len(t.rows)

(* The number of distinct non-missing values of column j (Series.nunique). *)
NUnique(t, j) == Cardinality({t.rows[r][j] : r \in DOMAIN t.rows} \ {NaN})

-----------------------------------------------------------------------------
(* Rounding.  round(x, 2) and Series.round(2) round to the nearest         *)
(* hundredth, ties to the even neighbour.                                  *)

(* The integer nearest to num/den (den > 0), ties to even. *)
RoundHalfEven(num, den) ==
  LET q == (2 * num + den) \div (2 * den)
      tie == (2 * num + den) % (2 * den) = 0
  IN IF tie /\ q % 2 = 1 THEN q - 1 ELSE q

Round2(x) == 10 * RoundHalfEven(x, 10)

(* round((part / whole) * 100, 2), in hundredths of a percent; whole > 0. *)
Percent2(part, whole) == RoundHalfEven(part * 10000, whole)

-----------------------------------------------------------------------------
(* Order of group keys.  groupby() sorts its keys: numbers by value, text  *)
(* as Python compares strings.  WordOrder lists the words of the model in  *)
(* that order; whitespace sorts before digits, digits before upper case,   *)
(* upper case before lower case.                                           *)

WordOrder == <<"", "abc", "buy", "cat", "credit", "day", "debit", "deposit", "earn",
               "expense", "food", "income", "label", "nan", "now", "payment", "refund",
               "region", "rent", "today", "widget", "withdrawal">>

WordRank(s) == CHOOSE i \in DOMAIN WordOrder : WordOrder[i] = s

(* The decimal digits of a word's index, as a pair, for string order. *)
IndexKey(n) ==
  IF n = 0 THEN <<-1, -1>>
  ELSE IF n < 10 THEN <<n, -1>>
  ELSE <<n \div 10, n % 10>>

CellKey(c) ==
  CASE c.k = "num" -> <<0, c.n, 0, 0, 0>>
    [] c.k = "nan" -> <<4, 0, 0, 0, 0>>
    [] c.k = "numstr" -> <<IF c.pad THEN 1 ELSE 2, c.n, 0, 0, 0>>
    [] OTHER -> <<IF c.pad THEN 1 ELSE 3, IF c.up THEN 0 ELSE 1,
                  WordRank(c.s), IndexKey(c.n)[1], IndexKey(c.n)[2]>>

RECURSIVE LexLess(_, _)
LexLess(a, b) ==
  IF a = <<>> THEN FALSE
  ELSE IF Head(a) # Head(b) THEN Head(a) < Head(b)
  ELSE LexLess(Tail(a), Tail(b))

CellLess(a, b) == LexLess(CellKey(a), CellKey(b))

RECURSIVE SortKeys(_)
(* The cells of S in ascending order. *)
SortKeys(S) ==
  IF S = {} THEN <<>>
  ELSE LET m == CHOOSE x \in S : \A y \in S \ {x} : ~CellLess(y, x)
       IN <<m>> \o SortKeys(S \ {m})

RECURSIVE InsertDesc(_, _)
(* item put into the descending sequence, after every entry that is not    *)
(* smaller: entries of equal amount keep the order they arrive in.         *)
InsertDesc(seq, item) ==
  IF seq = <<>> THEN <<item>>
  ELSE IF Head(seq).amount >= item.amount
       THEN <<Head(seq)>> \o InsertDesc(Tail(seq), item)
       ELSE <<item>> \o seq

RECURSIVE SortValuesDesc(_)
(* sort_values(ascending=False) *)
SortValuesDesc(seq) ==
  IF seq = <<>> THEN <<>>
  ELSE InsertDesc(SortValuesDesc(SubSeq(seq, 1, Len(seq) - 1)), seq[Len(seq)])

(* rows.groupby(kj)[vj].sum().sort_values(ascending=False).round(2).to_dict() *)
(* as the ordered entries of the dict.  Rows with a missing key are dropped *)
(* by groupby; a missing value adds nothing to its group's sum.            *)
GroupSum(rows, kj, vj) ==
  LET keys == SortKeys({rows[r][kj] : r \in DOMAIN rows} \ {NaN})
      sums == [i \in DOMAIN keys |->
                 [category |-> keys[i],
                  amount |-> SumSeq([r \in DOMAIN rows |->
                               IF rows[r][kj] = keys[i] THEN NumVal(rows[r][vj]) ELSE 0])]]
      sorted == SortValuesDesc(sums)
  IN [i \in DOMAIN sorted |->
        [category |-> sorted[i].category, amount |-> Round2(sorted[i].amount)]]

(* df[name].sum() *)
ColumnSum(rows, vj) == SumSeq([r \in DOMAIN rows |-> NumVal(rows[r][vj])])

-----------------------------------------------------------------------------
(* parse_csv *)

(* A header as written in the file: its lower-cased, trimmed text s, and   *)
(* whether the text has upper-case letters or surrounding whitespace.      *)
Hdr(s, up, pad) == [s |-> s, up |-> up, pad |-> pad]

(* str(c).strip().lower() *)
NormalizeName(h) == h.s

(* The bytes of an upload: a delimited text that read_csv parses (its      *)
(* header and rows), a text it cannot parse, or no bytes at all.           *)
Csv(hdrs, rows) == [kind |-> "csv", cols |-> hdrs, rows |-> rows]
Malformed == [kind |-> "malformed", cols |-> <<>>, rows |-> <<>>]
ZeroBytes == [kind |-> "empty", cols |-> <<>>, rows |-> <<>>]

(* read_csv raises on malformed text and on empty input (EmptyDataError);  *)
(* parse_csv turns either into HTTPException(400).                         *)
ParseFails(c) == c.kind # "csv"

parse_csv(c) ==
  Table([j \in DOMAIN c.cols |-> NormalizeName(c.cols[j])], c.rows)

NoTable == Table(<<>>, <<>>)

-----------------------------------------------------------------------------
(* compute_analytics: role resolution *)

TYPE_FALLBACKS == <<"transaction_type", "status", "payment_type">>
AMOUNT_FALLBACKS == <<"total", "value", "revenue", "price", "cost", "total_price">>
CATEGORY_FALLBACKS == <<"product", "item", "department", "expense_category">>

(* The block without its break: every fallback present is renamed. *)
RenameForNoBreak(cols_set, canonical, fallbacks) ==
  IF canonical \in cols_set THEN {}
  ELSE {<<c, canonical>> : c \in Range(fallbacks) \cap cols_set}

(* One "if canonical not in cols_set: for c in [...]" block: the entries   *)
(* it adds to rename_map, as pairs <<old name, new name>>.                 *)
RenameFor(cols_set, canonical, fallbacks) ==
  IF canonical \in cols_set THEN {}
  ELSE LET c == FirstPresent(fallbacks, cols_set)
       IN IF c = "" THEN {} ELSE {<<c, canonical>>}

RenameMap(cols_set) ==
  RenameFor(cols_set, "type", TYPE_FALLBACKS)
    \cup RenameFor(cols_set, "amount", AMOUNT_FALLBACKS)
    \cup RenameFor(cols_set, "category", CATEGORY_FALLBACKS)

(* df.rename(columns=rename_map).columns *)
RenameColumns(cols, map) ==
  [j \in DOMAIN cols |->
     IF \E p \in map : p[1] = cols[j]
     THEN (CHOOSE p \in map : p[1] = cols[j])[2]
     ELSE cols[j]]

-----------------------------------------------------------------------------
(* compute_analytics: aggregation *)

INCOME_TYPES == {"income", "credit", "deposit", "earn"}
EXPENSE_TYPES == {"expense", "debit", "withdrawal", "payment", "buy"}

NUNIQUE_LIMIT == 20
OVERSPENDING_PCT == 30

(* Series.isin(words) on one value. *)
IsIn(c, words) == \E w \in words : c = Str(w)

(* The rows of t at the indices idx, in order (df[mask]). *)
TakeRows(t, idx) == [i \in DOMAIN idx |-> t.rows[idx[i]]]

(* pd.to_datetime(errors="coerce") on one value: the day it denotes, or    *)
(* none (NaT).  The text "day<n>" is the date of day n.                    *)
IsDate(c) == c.k = "num" \/ (c.k = "str" /\ c.s = "day" /\ c.n > 0)

(* pd.to_datetime reads the texts "now" and "today" as the instant of the  *)
(* call: the wall clock of the request, which the variable now holds.      *)
IsNow(c) == c.k = "str" /\ c.s \in {"now", "today"}

NaT == [nat |-> TRUE, day |-> 0]
Day(n) == [nat |-> FALSE, day |-> n]

(* The "analysis" literal with the totals present from the start, at zero. *)
GenericMetadataZeroTotals(nrows, cols, has_finance_cols) ==
  [keys |-> {"total_rows", "columns", "is_financial_data",
             "expense_by_category", "overspending_flags",
             "total_income", "total_expenses", "net_surplus", "savings_rate"},
   total_rows |-> nrows,
   columns |-> cols,
   is_financial_data |-> has_finance_cols,
   expense_by_category |-> <<>>,
   overspending_flags |-> <<>>,
   total_income |-> 0,
   total_expenses |-> 0,
   net_surplus |-> 0,
   savings_rate |-> 0,
   generic_chart_label |-> <<>>,
   date_range |-> <<>>]

(* The summary's fields before any branch runs (the "analysis" literal);   *)
(* keys is the set of keys the dict holds, a field outside keys is absent. *)
GenericMetadata(nrows, cols, has_finance_cols) ==
  [keys |-> {"total_rows", "columns", "is_financial_data",
             "expense_by_category", "overspending_flags"},
   total_rows |-> nrows,
   columns |-> cols,
   is_financial_data |-> has_finance_cols,
   expense_by_category |-> <<>>,
   overspending_flags |-> <<>>,
   total_income |-> 0,
   total_expenses |-> 0,
   net_surplus |-> 0,
   savings_rate |-> 0,
   generic_chart_label |-> <<>>,
   date_range |-> <<>>]

(* select_dtypes without its dtype filter: every column. *)
SelectNumberEveryColumn(t) == t.cols

(* df.select_dtypes(include=["number"]).columns.tolist() *)
SelectNumber(t) ==
  LET idx == SelectIdx([j \in DOMAIN t.cols |-> IsNumericColumn(t, j)], 1, Len(t.cols))
  IN [i \in DOMAIN idx |-> t.cols[idx[i]]]

(* Lines 81-83: does the amount column need coercion? *)
NeedsCoercion(t) ==
  "amount" \in Range(t.cols) /\ "amount" \notin Range(SelectNumber(t))

(* df["amount"] = pd.to_numeric(df["amount"], errors="coerce").fillna(0) *)
CoerceAmount(t) ==
  LET j == ColIdx(t.cols, "amount")
  IN SetColumn(t, j, [r \in DOMAIN t.rows |-> ToNumericFill0(t.rows[r][j])])

(* Line 86 without str.lower(). *)
NormalizeTypeNoLower(t) ==
  LET j == ColIdx(t.cols, "type")
  IN SetColumn(t, j, [r \in DOMAIN t.rows |-> StrStrip(AsTypeStr(t.rows[r][j]))])

(* df["type"] = df["type"].astype(str).str.strip().str.lower() *)
NormalizeType(t) ==
  LET j == ColIdx(t.cols, "type")
  IN SetColumn(t, j, [r \in DOMAIN t.rows |-> StrLower(StrStrip(AsTypeStr(t.rows[r][j])))])

(* df["category"] = df["category"].astype(str).str.strip() *)
NormalizeCategory(t) ==
  LET j == ColIdx(t.cols, "category")
  IN SetColumn(t, j, [r \in DOMAIN t.rows |-> StrStrip(AsTypeStr(t.rows[r][j]))])

(* Indices of the rows whose (normalised) type is one of words. *)
RowsOfType(t, words) ==
  LET j == ColIdx(t.cols, "type")
  IN SelectIdx([r \in DOMAIN t.rows |-> IsIn(t.rows[r][j], words)], 1, Len(t.rows))

(* Lines 92-93 left out. *)
TreatAllAsExpensesNever(t) == FALSE

(* Line 92: no income row and no expense row: every row is an expense. *)
TreatAllAsExpenses(t) ==
  /\ RowsOfType(t, INCOME_TYPES) = <<>>
  /\ RowsOfType(t, EXPENSE_TYPES) = <<>>
  /\ "amount" \in Range(t.cols)

(* Line 97 with the operands swapped. *)
NetSurplusSwapped(total_income, total_expenses) == Round2(total_expenses - total_income)

(* net_surplus = round(total_income - total_expenses, 2) *)
NetSurplus(total_income, total_expenses) == Round2(total_income - total_expenses)

(* Line 98 guarded by total_income != 0 instead of total_income > 0. *)
SavingsRateNonZeroGuard(net_surplus, total_income) ==
  IF total_income > 0 THEN Percent2(net_surplus, total_income)
  ELSE IF total_income < 0 THEN Percent2(-net_surplus, -total_income)
  ELSE 0

(* savings_rate = round((net_surplus / total_income) * 100, 2)             *)
(*                if total_income > 0 else 0.0                             *)
SavingsRate(net_surplus, total_income) ==
  IF total_income > 0 THEN Percent2(net_surplus, total_income) ELSE 0

(* Lines 112-114 with pct >= 30. *)
OverspendingFlagsAtThreshold(cat_totals, total_expenses) ==
  IF total_expenses > 0
  THEN LET ratios == [i \in DOMAIN cat_totals |->
                        Percent2(cat_totals[i].amount, total_expenses)]
           idx == SelectIdx([i \in DOMAIN cat_totals |->
                               ratios[i] >= OVERSPENDING_PCT * 100], 1, Len(cat_totals))
       IN [i \in DOMAIN idx |->
             [category |-> cat_totals[idx[i]].category,
              percentage |-> ratios[idx[i]],
              amount |-> cat_totals[idx[i]].amount]]
  ELSE <<>>

(* Lines 112-114 with the threshold at 20. *)
OverspendingFlagsAbove20(cat_totals, total_expenses) ==
  IF total_expenses > 0
  THEN LET ratios == [i \in DOMAIN cat_totals |->
                        Percent2(cat_totals[i].amount, total_expenses)]
           idx == SelectIdx([i \in DOMAIN cat_totals |-> ratios[i] > 2000],
                            1, Len(cat_totals))
       IN [i \in DOMAIN idx |->
             [category |-> cat_totals[idx[i]].category,
              percentage |-> ratios[idx[i]],
              amount |-> cat_totals[idx[i]].amount]]
  ELSE <<>>

(* Lines 112-114: the entries of cat_totals whose share of total_expenses  *)
(* is above the threshold, in cat_totals' order.                           *)
OverspendingFlags(cat_totals, total_expenses) ==
  IF total_expenses > 0
  THEN LET ratios == [i \in DOMAIN cat_totals |->
                        Percent2(cat_totals[i].amount, total_expenses)]
           idx == SelectIdx([i \in DOMAIN cat_totals |->
                               ratios[i] > OVERSPENDING_PCT * 100], 1, Len(cat_totals))
       IN [i \in DOMAIN idx |->
             [category |-> cat_totals[idx[i]].category,
              percentage |-> ratios[idx[i]],
              amount |-> cat_totals[idx[i]].amount]]
  ELSE <<>>

(* Lines 85-114, on the frame t whose amount column is already numeric.    *)
(* Gives the summary and the frame as the branch leaves it.  expense_df is *)
(* a copy of the selected rows taken before the category column is         *)
(* normalised, except when every row is treated as an expense: then it is  *)
(* df itself and sees the normalised category column.                      *)
FinancialBranch(a, t) ==
  LET t2 == NormalizeType(t)
      aj == ColIdx(t2.cols, "amount")
      all == TreatAllAsExpenses(t2)
      income_rows == TakeRows(t2, RowsOfType(t2, INCOME_TYPES))
      has_cat == "category" \in Range(t2.cols)
      t3 == IF has_cat THEN NormalizeCategory(t2) ELSE t2
      expense_rows == IF all THEN t3.rows
                      ELSE TakeRows(t2, RowsOfType(t2, EXPENSE_TYPES))
      total_income == Round2(ColumnSum(income_rows, aj))
      total_expenses == Round2(ColumnSum(expense_rows, aj))
      net_surplus == NetSurplus(total_income, total_expenses)
      cat_totals == IF has_cat
                    THEN GroupSum(expense_rows, ColIdx(t2.cols, "category"), aj)
                    ELSE <<>>
  IN [analysis |->
        [a EXCEPT !.keys = @ \cup {"total_income", "total_expenses",
                                    "net_surplus", "savings_rate"},
                  !.total_income = total_income,
                  !.total_expenses = total_expenses,
                  !.net_surplus = net_surplus,
                  !.savings_rate = SavingsRate(net_surplus, total_income),
                  !.is_financial_data = TRUE,
                  !.expense_by_category = cat_totals,
                  !.overspending_flags =
                     IF has_cat THEN OverspendingFlags(cat_totals, total_expenses)
                     ELSE <<>>],
      df |-> t3]

(* Line 121 without its preference for the amount column. *)
TargetColFirstNumeric(t, numeric_cols) == numeric_cols[1]

(* Line 121: the column the fallback sums. *)
TargetCol(t, numeric_cols) ==
  IF "amount" \in Range(t.cols) THEN "amount" ELSE numeric_cols[1]

(* Line 124 without the limit on distinct values. *)
CatCandidatesAnyCardinality(t, target_col) ==
  LET idx == SelectIdx([j \in DOMAIN t.cols |-> t.cols[j] # target_col], 1, Len(t.cols))
  IN [i \in DOMAIN idx |-> t.cols[idx[i]]]

(* Line 124 with the limit itself allowed. *)
CatCandidatesAtLimit(t, target_col) ==
  LET idx == SelectIdx([j \in DOMAIN t.cols |->
                          t.cols[j] # target_col /\ NUnique(t, j) <= NUNIQUE_LIMIT],
                       1, Len(t.cols))
  IN [i \in DOMAIN idx |-> t.cols[idx[i]]]

(* Line 124: the columns the fallback may group by, in table order. *)
CatCandidates(t, target_col) ==
  LET idx == SelectIdx([j \in DOMAIN t.cols |->
                          t.cols[j] # target_col /\ NUnique(t, j) < NUNIQUE_LIMIT],
                       1, Len(t.cols))
  IN [i \in DOMAIN idx |-> t.cols[idx[i]]]

(* Lines 117-131 without line 130: the fallback leaves is_financial_data. *)
GenericFallbackFlagUnset(a, t, numeric_cols) ==
  IF ~a.is_financial_data /\ numeric_cols # <<>>
  THEN LET target_col == TargetCol(t, numeric_cols)
           cat_candidates == CatCandidates(t, target_col)
       IN IF cat_candidates # <<>>
          THEN LET group_col == cat_candidates[1]
                   tj == ColIdx(t.cols, target_col)
               IN [a EXCEPT !.keys = @ \cup {"total_expenses", "generic_chart_label"},
                            !.expense_by_category =
                               GroupSum(t.rows, ColIdx(t.cols, group_col), tj),
                            !.total_expenses = Round2(ColumnSum(t.rows, tj)),
                            !.generic_chart_label = <<target_col, group_col>>]
          ELSE a
  ELSE a

(* Lines 117-131 without the test of is_financial_data at line 117. *)
GenericFallbackUnguarded(a, t, numeric_cols) ==
  IF numeric_cols # <<>>
  THEN LET target_col == TargetCol(t, numeric_cols)
           cat_candidates == CatCandidates(t, target_col)
       IN IF cat_candidates # <<>>
          THEN LET group_col == cat_candidates[1]
                   tj == ColIdx(t.cols, target_col)
               IN [a EXCEPT !.keys = @ \cup {"total_expenses", "generic_chart_label"},
                            !.expense_by_category =
                               GroupSum(t.rows, ColIdx(t.cols, group_col), tj),
                            !.total_expenses = Round2(ColumnSum(t.rows, tj)),
                            !.is_financial_data = TRUE,
                            !.generic_chart_label = <<target_col, group_col>>]
          ELSE a
  ELSE a

(* Lines 117-131. *)
GenericFallback(a, t, numeric_cols) ==
  IF ~a.is_financial_data /\ numeric_cols # <<>>
  THEN LET target_col == TargetCol(t, numeric_cols)
           cat_candidates == CatCandidates(t, target_col)
       IN IF cat_candidates # <<>>
          THEN LET group_col == cat_candidates[1]
                   tj == ColIdx(t.cols, target_col)
               IN [a EXCEPT !.keys = @ \cup {"total_expenses", "generic_chart_label"},
                            !.expense_by_category =
                               GroupSum(t.rows, ColIdx(t.cols, group_col), tj),
                            !.total_expenses = Round2(ColumnSum(t.rows, tj)),
                            !.is_financial_data = TRUE,
                            !.generic_chart_label = <<target_col, group_col>>]
          ELSE a
  ELSE a

(* Lines 134-139: min and max of the parseable dates, NaT when none is.  *)
(* to_datetime raises on a frame with two date columns, and the except     *)
(* clause leaves the summary without date_range.                           *)
DateRange(a, t) ==
  IF "date" \in Range(t.cols) /\ ~IsFrame(t, "date")
  THEN LET j == ColIdx(t.cols, "date")
           days == {t.rows[r][j].n : r \in {x \in DOMAIN t.rows : IsDate(t.rows[x][j])}}
                     \cup {now : r \in {x \in DOMAIN t.rows : IsNow(t.rows[x][j])}}
           lo == IF days = {} THEN NaT
                 ELSE Day(CHOOSE d \in days : \A e \in days : d <= e)
           hi == IF days = {} THEN NaT
                 ELSE Day(CHOOSE d \in days : \A e \in days : d >= e)
       IN [a EXCEPT !.keys = @ \cup {"date_range"}, !.date_range = <<lo, hi>>]
  ELSE a

(* Line 82: pd.to_numeric raises TypeError when df["amount"] is a frame. *)
CoercionRaises(t) == NeedsCoercion(t) /\ IsFrame(t, "amount")

(* Lines 86-110: a frame has no .str accessor (AttributeError at 86 for    *)
(* type, at 109 for category), and the sum of a frame is a Series, which   *)
(* float() refuses (TypeError at 95).                                      *)
FinancialBranchRaises(t) ==
  \/ IsFrame(t, "type")
  \/ IsFrame(t, "amount")
  \/ "category" \in Range(t.cols) /\ IsFrame(t, "category")

(* Lines 117-127: for a repeated name other than the target,               *)
(* df[c].nunique() < 20 is a Series without a truth value (ValueError at   *)
(* 124); for a repeated target the grouped sum is a frame, which           *)
(* sort_values refuses without "by" (TypeError at 127).                    *)
GenericFallbackRaises(t, numeric_cols) ==
  /\ numeric_cols # <<>>
  /\ LET target_col == TargetCol(t, numeric_cols)
     IN \/ \E j \in DOMAIN t.cols : t.cols[j] # target_col /\ IsFrame(t, t.cols[j])
        \/ CatCandidates(t, target_col) # <<>> /\ IsFrame(t, target_col)

(* compute_analytics(df) raises instead of returning a summary. *)
compute_analytics_raises(t) ==
  LET t0 == Table(RenameColumns(t.cols, RenameMap(Range(t.cols))), t.rows)
      has_finance_cols == {"type", "amount"} \subseteq Range(t0.cols)
      numeric_cols == SelectNumber(t0)
                        \o (IF NeedsCoercion(t0) THEN <<"amount">> ELSE <<>>)
  IN \/ CoercionRaises(t0)
     \/ has_finance_cols /\ FinancialBranchRaises(t0)
     \/ ~has_finance_cols /\ GenericFallbackRaises(t0, numeric_cols)

(* compute_analytics(df): the summary it returns, the rename_map it built, *)
(* and the caller's table after the call.  Without a rename the function   *)
(* works on the caller's frame and its column assignments land there; with *)
(* one, df.rename gives it a frame of its own.                             *)
compute_analytics(t) ==
  LET cols == t.cols
      map == RenameMap(Range(cols))
      t0 == Table(RenameColumns(cols, map), t.rows)
      cols_set == Range(t0.cols)
      has_finance_cols == {"type", "amount"} \subseteq cols_set
      a0 == GenericMetadata(Len(t0.rows), cols, has_finance_cols)
      coerce == NeedsCoercion(t0)
      numeric_cols == SelectNumber(t0) \o (IF coerce THEN <<"amount">> ELSE <<>>)
      t1 == IF coerce THEN CoerceAmount(t0) ELSE t0
      fin == IF has_finance_cols THEN FinancialBranch(a0, t1)
             ELSE [analysis |-> a0, df |-> t1]
      a2 == GenericFallback(fin.analysis, fin.df, numeric_cols)
      a3 == DateRange(a2, fin.df)
  IN [analysis |-> a3,
      rename_map |-> map,
      df |-> IF map = {} THEN fin.df ELSE t]

-----------------------------------------------------------------------------
(* The uploads of the model.  A schema is a header and, per column, the    *)
(* cells its rows draw from; a tall schema gives each column a pattern     *)
(* over the row number instead.                                            *)

Plain(name) == Hdr(name, FALSE, FALSE)

RECURSIVE RowSet(_)
(* All rows with one cell of each set, in order. *)
RowSet(cells) ==
  IF cells = <<>> THEN {<<>>}
  ELSE {<<c>> \o r : c \in Head(cells), r \in RowSet(Tail(cells))}

(* What read_csv can give: a column is numbers and blanks, or it is text   *)
(* and blanks with at least one value that is not a numeric literal.       *)
ReadCsvGives(ncols, rows) ==
  \A j \in 1..ncols :
    \/ \A r \in DOMAIN rows : IsNumeric(rows[r][j])
    \/ /\ \A r \in DOMAIN rows : rows[r][j].k # "num"
       /\ \E r \in DOMAIN rows : rows[r][j].k = "str"

SchemaContents(hdrs, cells) ==
  {Csv(hdrs, rows) : rows \in
     {x \in UNION {[1..k -> RowSet(cells)] : k \in 0..MaxRows} :
        ReadCsvGives(Len(hdrs), x)}}

Food == Word("food", 0, TRUE, FALSE)
Rent == Word("rent", 0, TRUE, FALSE)
FoodPadded == Word("food", 0, TRUE, TRUE)
ExpensePadded == Word("expense", 0, TRUE, TRUE)

(* Ledgers with canonical headers, sub-cent amounts and blank categories:  *)
(* one of income and expense rows, one of expense and unrecognised rows.   *)
LedgerContents ==
  SchemaContents(<<Plain("type"), Plain("amount"), Plain("category")>>,
                 <<{Str("income"), ExpensePadded},
                   {Num(14), Num(3000), Num(7000)},
                   {Food, Rent, NaN}>>)
    \cup SchemaContents(<<Plain("type"), Plain("amount"), Plain("category")>>,
                        <<{ExpensePadded, Str("refund")},
                          {Num(14), Num(3000)},
                          {Food, NaN}>>)

(* A ledger whose roles resolve by fallback names, with decorated headers, *)
(* amounts written as text and padded category labels.                     *)
RenamedContents ==
  SchemaContents(<<Hdr("status", TRUE, FALSE), Hdr("total", FALSE, TRUE),
                   Plain("product")>>,
                 <<{ExpensePadded, Str("refund")},
                   {NumStr(3000), Str("abc"), NaN},
                   {Food, FoodPadded}>>)

(* Every recognised type word, and negative amounts. *)
KeywordContents ==
  SchemaContents(<<Plain("type"), Plain("amount")>>,
                 <<{Str(w) : w \in INCOME_TYPES \cup EXPENSE_TYPES \cup {"refund"}},
                   {Num(3000)}>>)
    \cup SchemaContents(<<Plain("amount"), Plain("type")>>,
                        <<{Num(-7000), Num(3000)},
                          {Str("income"), Str("expense"), Str("refund")}>>)

(* A dated ledger. *)
DatedContents ==
  SchemaContents(<<Plain("date"), Plain("type"), Plain("amount"), Plain("category")>>,
                 <<{Word("day", 1, FALSE, FALSE), Word("day", 2, FALSE, FALSE), Str("abc")},
                   {Str("income"), Str("expense")},
                   {Num(3000)},
                   {Food}>>)

RegionCells == {Word("region", 1, FALSE, FALSE), Word("region", 2, FALSE, FALSE), NaN}
QtyCells == {Num(4), Num(3000), NaN}

(* Tables without a type column, or without an amount column. *)
GenericContents ==
  SchemaContents(<<Plain("region"), Plain("qty_sold")>>, <<RegionCells, QtyCells>>)
    \cup SchemaContents(<<Plain("qty_sold"), Plain("region")>>, <<QtyCells, RegionCells>>)
    \cup SchemaContents(<<Plain("price"), Plain("region")>>,
                        <<{Num(4), Num(3000), NumStr(7000), Str("abc")}, RegionCells>>)
    \cup SchemaContents(<<Plain("type"), Plain("region")>>,
                        <<{Str("income"), Str("expense")}, RegionCells>>)
    \cup SchemaContents(<<Plain("qty_sold")>>, <<QtyCells>>)
    \cup SchemaContents(<<Plain("qty_sold"), Plain("price"), Plain("region")>>,
                        <<{Num(4), Num(3000)}, {Num(14), Num(3000), Str("abc")},
                          {Word("region", 1, FALSE, FALSE), NaN}>>)
    \cup SchemaContents(<<Plain("widget"), Plain("region")>>,
                        <<{Word("widget", 1, FALSE, FALSE)}, RegionCells>>)

(* Tall tables, around the limit on distinct values.  A column is a name   *)
(* and a pattern: its cell in row r.                                       *)
TallRows == {NUNIQUE_LIMIT - 1, NUNIQUE_LIMIT, NUNIQUE_LIMIT + 1}

PatternCell(pattern, r) ==
  CASE pattern = "distinct_label" -> Word("label", r, FALSE, FALSE)
    [] pattern = "distinct_number" -> Num(r * 1000)
    [] pattern = "eight_regions" -> Word("region", ((r - 1) % 8) + 1, FALSE, FALSE)
    [] OTHER -> Num(1500)

TallColumns ==
  {<<"widget", "distinct_label">>, <<"order_id", "distinct_number">>,
   <<"region", "eight_regions">>, <<"qty_sold", "constant">>}

TallContents ==
  {Csv([j \in DOMAIN cs |-> Plain(cs[j][1])],
       [r \in 1..n |-> [j \in DOMAIN cs |-> PatternCell(cs[j][2], r)]]) :
     cs \in {x \in UNION {[1..k -> TallColumns] : k \in 1..3} :
               \A i, j \in DOMAIN x : i # j => x[i] # x[j]},
     n \in TallRows}

(* Header-only files over every name the resolver knows, and some it does  *)
(* not.                                                                    *)
HeaderNames ==
  {"type", "amount", "category", "date", "region", "qty_sold"}
    \cup Range(TYPE_FALLBACKS) \cup Range(AMOUNT_FALLBACKS) \cup Range(CATEGORY_FALLBACKS)

HeaderContents ==
  {Csv([j \in DOMAIN x |-> Plain(x[j])], <<>>) :
     x \in {y \in UNION {[1..k -> HeaderNames] : k \in 1..MaxHeaderCols} :
              \A i, j \in DOMAIN y : i # j => y[i] # y[j]}}

(* Tables in which two headers differ by case or surrounding whitespace    *)
(* only, and so carry the same name once parse_csv has normalised them.    *)
Upper(name) == Hdr(name, TRUE, FALSE)
Income == Str("income")
Expense == Str("expense")

DuplicateContents ==
  SchemaContents(<<Upper("amount"), Plain("amount")>>,
                 <<{Num(3000), Str("abc")}, {Num(14), Str("abc")}>>)
    \cup SchemaContents(<<Upper("type"), Plain("type"), Plain("amount")>>,
                        <<{Income}, {Expense}, {Num(3000)}>>)
    \cup SchemaContents(<<Plain("type"), Plain("total"), Upper("total")>>,
                        <<{Income, Expense}, {Num(3000)}, {Num(14)}>>)
    \cup SchemaContents(<<Plain("type"), Plain("amount"), Plain("category"),
                          Upper("category")>>,
                        <<{Expense}, {Num(3000)}, {Food}, {Rent}>>)
    \cup SchemaContents(<<Plain("type"), Plain("amount"), Plain("note"), Upper("note")>>,
                        <<{Income, Expense}, {Num(3000)}, {Str("abc")}, {NaN}>>)
    \cup SchemaContents(<<Plain("date"), Upper("date"), Plain("type"), Plain("amount")>>,
                        <<{Word("day", 1, FALSE, FALSE)}, {Word("day", 2, FALSE, FALSE)},
                          {Expense}, {Num(3000)}>>)
    \cup SchemaContents(<<Plain("qty_sold"), Plain("region"), Upper("region")>>,
                        <<{Num(4)}, RegionCells, {Str("abc")}>>)
    \cup SchemaContents(<<Plain("qty_sold"), Upper("qty_sold"), Plain("region")>>,
                        <<{Num(4)}, {Num(3000)}, RegionCells>>)
    \cup SchemaContents(<<Plain("qty_sold"), Upper("qty_sold")>>, <<{Num(4)}, {Num(3000)}>>)
    \cup SchemaContents(<<Plain("region"), Upper("region")>>, <<RegionCells, {Str("abc")}>>)

(* Expense ledgers of three to five rows, each row in a category of its    *)
(* own, with amounts that give shares around the flag threshold, and       *)
(* refunds entered as negative expenses.                                   *)
ShareRows == {3, 4, 5}
ShareAmounts == {Num(1000), Num(4000), Num(-6000)}

SharesContents ==
  {Csv(<<Plain("type"), Plain("amount"), Plain("category")>>,
       [r \in DOMAIN amt |-> <<Expense, amt[r], Word("cat", r, FALSE, FALSE)>>]) :
     amt \in UNION {[1..n -> ShareAmounts] : n \in ShareRows}}

Contents ==
  {Malformed, ZeroBytes} \cup SharesContents \cup LedgerContents \cup RenamedContents \cup KeywordContents
    \cup DatedContents \cup GenericContents \cup TallContents \cup HeaderContents
    \cup DuplicateContents

-----------------------------------------------------------------------------
(* The state machine: one upload_csv request, from the bytes to the        *)
(* summary and to what the request stores: the file in the upload          *)
(* directory, the uploaded_files row and the chat_history rows.            *)

(* The name of the uploaded file: its text before the extension, its       *)
(* extension in lower case, and whether the extension as sent has          *)
(* upper-case letters.                                                     *)
FileName(stem, ext, up) == [stem |-> stem, ext |-> ext, up |-> up]

(* file.filename.lower().endswith(".csv") *)
EndsWithCsv(f) == f.ext = "csv"

FileNames ==
  {FileName("ledger", "csv", TRUE), FileName("ledger", "txt", FALSE),
   FileName("ledger.csv", "bak", FALSE)}

NoFileName == FileName("", "", FALSE)

(* The detail of the HTTPException that rejects a request. *)
ONLY_CSV == "Only CSV files are accepted"
FAILED_TO_PARSE == "Failed to parse CSV"

(* What get_auto_analysis gives (an insight, or a text saying why there is *)
(* none), and the placeholder that stays when it raises.                   *)
SKIPPED == "AI analysis skipped due to error."
Insights == {"insight", SKIPPED}

NoContent == [kind |-> "none", cols |-> <<>>, rows |-> <<>>]
NoAnalysis == [GenericMetadata(0, <<>>, FALSE) EXCEPT !.keys = {}]

(* The users that hold a token: verify_token gives the request its         *)
(* current_user["user_id"].                                                *)
Users == {1, 2}

(* The wall clock when the first request arrives; the days of the model's  *)
(* dated tables lie before it.                                             *)
StartOfClock == 3

(* What a read operation answers: the operation, its caller, the file_id   *)
(* asked for (0 when none), the HTTP status, and the uploaded_files rows   *)
(* and chat_history rows it returns or uses.                               *)
Response(op, caller, file_id, status, files, messages) ==
  [op |-> op, caller |-> caller, file_id |-> file_id, status |-> status,
   files |-> files, messages |-> messages]
NoResponse == Response("none", 0, 0, 0, <<>>, <<>>)

(* A register request: its position in register, the RegisterRequest it    *)
(* carries and the token of its AuthResponse.  A username or password is   *)
(* the sequence of its characters.                                         *)
NoToken == [user_id |-> 0, username |-> <<>>]
RegisterIds == 1 .. MaxRegisters
NotArrived == [pc |-> "new", username |-> <<>>, password |-> <<>>,
               status |-> 0, token |-> NoToken]

Init ==
  /\ content = NoContent
  /\ df = NoTable
  /\ analysis = NoAnalysis
  /\ rename_map = {}
  /\ pc = "idle"
  /\ filename = NoFileName
  /\ detail = ""
  /\ upload_dir = <<>>
  /\ uploaded_files = <<>>
  /\ chat_messages = <<>>
  /\ user_id = 1
  /\ now = StartOfClock
  /\ requests = 1
  /\ response = NoResponse
  /\ users = <<>>
  /\ reg = [r \in RegisterIds |-> NotArrived]

(* Lines 154-155: a file name that does not end in .csv is rejected before *)
(* the content is read.                                                    *)
RejectFileName ==
  /\ pc = "idle"
  /\ \E f \in FileNames :
       /\ ~EndsWithCsv(f)
       /\ filename' = f
  /\ detail' = ONLY_CSV
  /\ pc' = "rejected"
  /\ UNCHANGED <<content, df, analysis, rename_map,
                 upload_dir, uploaded_files, chat_messages>>
  /\ UNCHANGED <<user_id, now, requests, response, users, reg>>

(* Lines 156-157: content = await file.read(), then                        *)
(* df = parse_csv(content, file.filename), whatever the content is.        *)
ParseCsv ==
  /\ pc = "idle"
  /\ \E f \in FileNames :
       /\ EndsWithCsv(f)
       /\ filename' = f
  /\ \E c \in Contents :
       /\ content' = c
       /\ IF ParseFails(c)
          THEN df' = NoTable /\ pc' = "rejected" /\ detail' = FAILED_TO_PARSE
          ELSE df' = parse_csv(c) /\ pc' = "parsed" /\ detail' = detail
  /\ UNCHANGED <<analysis, rename_map, upload_dir, uploaded_files, chat_messages>>
  /\ UNCHANGED <<user_id, now, requests, response, users, reg>>

(* analytics = compute_analytics(df): the summary, or the exception that  *)
(* ends the request (nothing of the call is kept then).                    *)
ComputeAnalytics ==
  /\ pc = "parsed"
  /\ IF compute_analytics_raises(df)
     THEN pc' = "raised" /\ UNCHANGED <<analysis, rename_map, df>>
     ELSE LET r == compute_analytics(df)
          IN /\ analysis' = r.analysis
             /\ rename_map' = r.rename_map
             /\ df' = r.df
             /\ pc' = "done"
  /\ UNCHANGED <<content, filename, detail, upload_dir, uploaded_files, chat_messages>>
  /\ UNCHANGED <<user_id, now, requests, response, users, reg>>

(* The upload fails after the user's line when there is no insight: the    *)
(* assistant's line is never added.                                        *)
StoreUploadNeedsInsight ==
  /\ pc = "done"
  /\ \E ai_insight \in Insights :
       LET analytics == [analysis EXCEPT !.keys = @ \cup {"_render_dashboard"}]
           said == <<[user_id |-> user_id, role |-> "user", about |-> filename,
                      ai_insight |-> "", dashboard_data |-> NoAnalysis]>>
           answered == <<[user_id |-> user_id, role |-> "assistant",
                          about |-> filename, ai_insight |-> ai_insight,
                          dashboard_data |-> analytics]>>
       IN /\ analysis' = analytics
          /\ upload_dir' = Append(upload_dir, [original_filename |-> filename,
                                              bytes |-> content])
          /\ uploaded_files' =
               Append(uploaded_files, [user_id |-> user_id,
                                       original_filename |-> filename,
                                       analytics_json |-> analytics])
          /\ chat_messages' =
               chat_messages \o said
                 \o (IF ai_insight = SKIPPED THEN <<>> ELSE answered)
  /\ pc' = "stored"
  /\ UNCHANGED <<content, df, rename_map, filename, detail>>
  /\ UNCHANGED <<user_id, now, requests, response, users, reg>>

(* Lines 159-204: the content is written to the upload directory, the      *)
(* summary gets the key _render_dashboard and is serialised into a new     *)
(* uploaded_files row, and two chat_history rows are added: the user's     *)
(* "Uploaded file" line and the assistant's analysis with the summary      *)
(* embedded.  ai_insight is the placeholder when get_auto_analysis raises. *)
StoreUpload ==
  /\ pc = "done"
  /\ \E ai_insight \in Insights :
       LET analytics == [analysis EXCEPT !.keys = @ \cup {"_render_dashboard"}]
       IN /\ analysis' = analytics
          /\ upload_dir' = Append(upload_dir, [original_filename |-> filename,
                                              bytes |-> content])
          /\ uploaded_files' =
               Append(uploaded_files, [user_id |-> user_id,
                                       original_filename |-> filename,
                                       analytics_json |-> analytics])
          /\ chat_messages' =
               chat_messages
                 \o <<[user_id |-> user_id, role |-> "user", about |-> filename,
                       ai_insight |-> "", dashboard_data |-> NoAnalysis],
                      [user_id |-> user_id, role |-> "assistant", about |-> filename,
                       ai_insight |-> ai_insight, dashboard_data |-> analytics]>>
  /\ pc' = "stored"
  /\ UNCHANGED <<content, df, rename_map, filename, detail>>
  /\ UNCHANGED <<user_id, now, requests, response, users, reg>>

Next == RejectFileName \/ ParseCsv \/ ComputeAnalytics \/ StoreUpload

Spec == Init /\ [][Next]_vars

-----------------------------------------------------------------------------
(* A session: several requests, one after the other, by the users that     *)
(* hold a token: uploads, and between them the operations that read what   *)
(* the uploads stored.  The clock advances from one upload to the next.    *)

Now == Word("now", 0, FALSE, FALSE)

(* The uploads of a session: a text that does not parse, a ledger, a       *)
(* ledger dated "now", and a table with a repeated column name.            *)
SessionContents ==
  {Malformed,
   Csv(<<Plain("type"), Plain("amount"), Plain("category")>>,
       <<<<Income, Num(5000), Food>>, <<Expense, Num(3000), Rent>>>>),
   Csv(<<Plain("date"), Plain("type"), Plain("amount"), Plain("category")>>,
       <<<<Now, Expense, Num(3000), Food>>>>),
   Csv(<<Upper("type"), Plain("type"), Plain("amount")>>,
       <<<<Income, Expense, Num(3000)>>>>)}

(* upload_csv is entered again: a new request of some user, with nothing   *)
(* of the previous request's locals.                                       *)
NextRequest ==
  /\ pc \in {"rejected", "raised", "stored"}
  /\ requests < MaxRequests
  /\ requests' = requests + 1
  /\ \E u \in Users : user_id' = u
  /\ now' = now + 1
  /\ pc' = "idle"
  /\ content' = NoContent
  /\ df' = NoTable
  /\ analysis' = NoAnalysis
  /\ rename_map' = {}
  /\ filename' = NoFileName
  /\ detail' = ""
  /\ UNCHANGED <<upload_dir, uploaded_files, chat_messages, response, users, reg>>

(* The content is written to the upload directory before it is parsed. *)
SessionParseCsvSavesFirst ==
  /\ pc = "idle"
  /\ \E f \in FileNames :
       /\ EndsWithCsv(f)
       /\ filename' = f
       /\ \E c \in SessionContents :
            /\ content' = c
            /\ upload_dir' = Append(upload_dir, [original_filename |-> f,
                                                bytes |-> c])
            /\ IF ParseFails(c)
               THEN df' = NoTable /\ pc' = "rejected" /\ detail' = FAILED_TO_PARSE
               ELSE df' = parse_csv(c) /\ pc' = "parsed" /\ detail' = detail
  /\ UNCHANGED <<analysis, rename_map, uploaded_files, chat_messages>>
  /\ UNCHANGED <<user_id, now, requests, response, users, reg>>

(* Lines 156-157 of upload_csv on the uploads of a session. *)
SessionParseCsv ==
  /\ pc = "idle"
  /\ \E f \in FileNames :
       /\ EndsWithCsv(f)
       /\ filename' = f
  /\ \E c \in SessionContents :
       /\ content' = c
       /\ IF ParseFails(c)
          THEN df' = NoTable /\ pc' = "rejected" /\ detail' = FAILED_TO_PARSE
          ELSE df' = parse_csv(c) /\ pc' = "parsed" /\ detail' = detail
  /\ UNCHANGED <<analysis, rename_map, upload_dir, uploaded_files, chat_messages>>
  /\ UNCHANGED <<user_id, now, requests, response, users, reg>>

RECURSIVE Reversed(_)
Reversed(q) == IF q = <<>> THEN <<>> ELSE Append(Reversed(Tail(q)), Head(q))

(* The first n of q: LIMIT n. *)
Limit(q, n) == IF Len(q) <= n THEN q ELSE SubSeq(q, 1, n)

(* The rows of uploaded_files with their id, the rows of chat_history. *)
FileRows == [i \in DOMAIN uploaded_files |->
               [id |-> i, user_id |-> uploaded_files[i].user_id,
                original_filename |-> uploaded_files[i].original_filename,
                analytics_json |-> uploaded_files[i].analytics_json]]

(* The file ids a request names: the first rows there can be. *)
FileIds == {1, 2}

HISTORY_LIMIT == 10

(* WHERE id = ? with no condition on user_id. *)
get_file_by_id_of_any_user(file_id, user) ==
  SelectSeq(FileRows, LAMBDA f : f.id = file_id)

(* WHERE id = ? AND user_id = ?: the row as a sequence, empty for None. *)
get_file_by_id(file_id, user) ==
  SelectSeq(FileRows, LAMBDA f : f.id = file_id /\ f.user_id = user)

(* WHERE user_id = ? ORDER BY id DESC *)
get_user_files(user) ==
  Reversed(SelectSeq(FileRows, LAMBDA f : f.user_id = user))

(* WHERE user_id = ?, oldest first *)
get_chat_history(user) ==
  SelectSeq(chat_messages, LAMBDA m : m.user_id = user)

(* DELETE FROM chat_history WHERE user_id = ? *)
clear_chat_history(user) ==
  SelectSeq(chat_messages, LAMBDA m : m.user_id # user)

(* A chat_history row of the chat endpoint. *)
ChatRow(user, role, text) ==
  [user_id |-> user, role |-> role, about |-> NoFileName,
   ai_insight |-> text, dashboard_data |-> NoAnalysis]

(* A read operation is served between two uploads. *)
Serving ==
  /\ pc \in {"rejected", "raised", "stored"}
  /\ requests < MaxRequests
  /\ requests' = requests + 1
  /\ UNCHANGED <<content, df, analysis, rename_map, pc, filename, detail,
                 upload_dir, uploaded_files, user_id, now, users, reg>>

ListFiles ==
  /\ Serving
  /\ \E u \in Users :
       response' = Response("list_files", u, 0, 200, get_user_files(u), <<>>)
  /\ UNCHANGED chat_messages

GetFile ==
  /\ Serving
  /\ \E u \in Users, file_id \in FileIds :
       LET f == get_file_by_id(file_id, u)
       IN response' = Response("get_file", u, file_id,
                               IF f = <<>> THEN 404 ELSE 200, f, <<>>)
  /\ UNCHANGED chat_messages

(* An unknown report type is refused before the file is looked up; with   *)
(* the file found, the report needs the AI service (503 without it).       *)
GenerateReport ==
  /\ Serving
  /\ \E u \in Users, file_id \in FileIds, known \in BOOLEAN, ai \in BOOLEAN :
       LET f == IF known THEN get_file_by_id(file_id, u) ELSE <<>>
           status == IF ~known THEN 400
                     ELSE IF f = <<>> THEN 404
                     ELSE IF ai THEN 200 ELSE 503
       IN response' = Response("generate_report", u, file_id, status, f, <<>>)
  /\ UNCHANGED chat_messages

(* chat: the analytics context is the caller's file (file_id 0 is no       *)
(* file_id); the user's message is stored; with the AI service, the last   *)
(* messages of the caller go into the prompt; the reply is stored.         *)
Chat ==
  /\ Serving
  /\ \E u \in Users, file_id \in {0} \cup FileIds, ai \in BOOLEAN :
       LET f == IF file_id # 0 THEN get_file_by_id(file_id, u) ELSE <<>>
           asked == Append(chat_messages, ChatRow(u, "user", "message"))
           mine == SelectSeq(asked, LAMBDA m : m.user_id = u)
           history == IF ai THEN Limit(Reversed(mine), HISTORY_LIMIT) ELSE <<>>
       IN /\ chat_messages' = Append(asked, ChatRow(u, "assistant", "reply"))
          /\ response' = Response("chat", u, file_id, 200, f, history)

GetHistory ==
  /\ Serving
  /\ \E u \in Users :
       response' = Response("get_history", u, 0, 200, <<>>, get_chat_history(u))
  /\ UNCHANGED chat_messages

ClearHistory ==
  /\ Serving
  /\ \E u \in Users :
       /\ chat_messages' = clear_chat_history(u)
       /\ response' = Response("clear_history", u, 0, 200, <<>>, <<>>)

(* The first request of a session is an upload of any of the users. *)
SessionInit ==
  /\ content = NoContent
  /\ df = NoTable
  /\ analysis = NoAnalysis
  /\ rename_map = {}
  /\ pc = "idle"
  /\ filename = NoFileName
  /\ detail = ""
  /\ upload_dir = <<>>
  /\ uploaded_files = <<>>
  /\ chat_messages = <<>>
  /\ user_id \in Users
  /\ now = StartOfClock
  /\ requests = 1
  /\ response = NoResponse
  /\ users = <<>>
  /\ reg = [r \in RegisterIds |-> NotArrived]

SessionNext ==
  \/ RejectFileName \/ SessionParseCsv \/ ComputeAnalytics \/ StoreUpload
  \/ NextRequest
  \/ ListFiles \/ GetFile \/ GenerateReport \/ Chat \/ GetHistory \/ ClearHistory

SessionSpec == SessionInit /\ [][SessionNext]_vars

-----------------------------------------------------------------------------
(* The requirements, stated on the uploaded table as the file gives it     *)
(* (content) and on the summary returned for it (analysis).                *)

Returned == pc = "done"

InCols == [j \in DOMAIN content.cols |-> content.cols[j].s]
InRows == content.rows
RowIds == DOMAIN InRows

TypePriority == <<"type", "transaction_type", "status", "payment_type">>
AmountPriority == <<"amount", "total", "value", "revenue", "price", "cost", "total_price">>
CategoryPriority == <<"category", "product", "item", "department", "expense_category">>

(* The column a role resolves to: the first name of its priority list that *)
(* the table has, "" when it has none.                                     *)
RoleColumn(priority) == FirstPresent(priority, Range(InCols))
TypeColumn == RoleColumn(TypePriority)
AmountColumn == RoleColumn(AmountPriority)
CategoryColumn == RoleColumn(CategoryPriority)

RolesResolved == TypeColumn # "" /\ AmountColumn # ""

CellOf(r, name) == InRows[r][ColIdx(InCols, name)]

(* A row's amount: its number, zero when blank or not a number. *)
AmountOf(r) ==
  LET c == CellOf(r, AmountColumn)
  IN IF c.k \in {"num", "numstr"} THEN c.n ELSE 0

(* A row's type value, trimmed and lower-cased ("" when it is no word). *)
TypeWord(r) ==
  LET c == CellOf(r, TypeColumn)
  IN IF c.k = "str" /\ c.n = 0 THEN c.s ELSE ""

IsIncomeRow(r) == TypeWord(r) \in {"income", "credit", "deposit", "earn"}
IsExpenseRow(r) == TypeWord(r) \in {"expense", "debit", "withdrawal", "payment", "buy"}
AnyRecognised == \E r \in RowIds : IsIncomeRow(r) \/ IsExpenseRow(r)

(* The sum of the amounts of the rows in S. *)
AmountSum(S) == SumSeq([r \in RowIds |-> IF r \in S THEN AmountOf(r) ELSE 0])

(* y is x rounded to two decimals (ties to even). *)
IsRound2(y, x) ==
  /\ y % 10 = 0
  /\ 2 * (y - x) <= 10 /\ 2 * (x - y) <= 10
  /\ (2 * (y - x) = 10 \/ 2 * (x - y) = 10) => (y \div 10) % 2 = 0

(* p is part/whole as a percentage rounded to two decimals; whole > 0. *)
IsPercent2(p, part, whole) ==
  /\ 2 * (p * whole - part * 10000) <= whole
  /\ 2 * (part * 10000 - p * whole) <= whole
  /\ (2 * (p * whole - part * 10000) = whole
        \/ 2 * (part * 10000 - p * whole) = whole) => p % 2 = 0

Has(key) == key \in analysis.keys

NumericDtype(j) ==
  /\ InRows # <<>>
  /\ \A r \in RowIds : InRows[r][j].k \in {"num", "nan"}

DistinctValues(j) == Cardinality({InRows[r][j] : r \in RowIds} \ {NaN})

(* The column the generic fallback sums: the amount column when there is   *)
(* one, else the first numeric column; "" when there is neither.           *)
FallbackTarget ==
  IF AmountColumn # "" THEN AmountColumn
  ELSE IF \E j \in DOMAIN InCols : NumericDtype(j)
       THEN InCols[CHOOSE j \in DOMAIN InCols :
                     /\ NumericDtype(j)
                     /\ \A i \in DOMAIN InCols : NumericDtype(i) => j <= i]
       ELSE ""

GroupingColumns ==
  {j \in DOMAIN InCols : InCols[j] # FallbackTarget /\ DistinctValues(j) < 20}

FallbackFound ==
  ~RolesResolved /\ FallbackTarget # "" /\ GroupingColumns # {}

(* C1: is_financial_data is true if and only if an aggregation was         *)
(* produced: both the type and the amount role resolved, or the generic    *)
(* fallback found a numeric target column and a grouping column with fewer *)
(* than 20 distinct values; in every other case it is false.               *)
C1_FlagIffAggregated ==
  Returned =>
    /\ analysis.is_financial_data <=> (RolesResolved \/ FallbackFound)
    /\ FallbackFound =>
         Len(analysis.expense_by_category)
           = DistinctValues(CHOOSE j \in GroupingColumns :
                              \A i \in GroupingColumns : j <= i)

(* A fallback that skipped a column with 20 or more distinct values and    *)
(* grouped by a later one.                                                 *)
C1_Witness ==
  /\ Returned /\ FallbackFound /\ analysis.is_financial_data
  /\ \E j \in DOMAIN InCols : InCols[j] # FallbackTarget /\ DistinctValues(j) >= 20
  /\ analysis.expense_by_category # <<>>

(* C2 as stated: is_financial_data is true if and only if the table        *)
(* exposes both a transaction-type column and an amount column.            *)
C2_FlagIffBothRoles ==
  Returned => (analysis.is_financial_data <=> RolesResolved)

(* C2, amended: is_financial_data is true if and only if the table exposes *)
(* both a type and an amount column or the summary carries a generic       *)
(* fallback aggregation (generic_chart_label); the two never coincide.     *)
C2_FlagIffRolesOrGenericLabel ==
  Returned =>
    /\ analysis.is_financial_data <=> (RolesResolved \/ Has("generic_chart_label"))
    /\ ~(RolesResolved /\ Has("generic_chart_label"))

C2_Witness ==
  /\ Returned /\ ~RolesResolved /\ TypeColumn = "" /\ AmountColumn # ""
  /\ analysis.is_financial_data /\ Has("generic_chart_label")

(* C3: total_income, net_surplus and savings_rate are in the summary       *)
(* exactly when both the type and the amount role resolved; whenever any   *)
(* of total_income, total_expenses, net_surplus, savings_rate is present,  *)
(* is_financial_data is true.                                              *)
C3_TotalsOnlyWhenFinancial ==
  Returned =>
    /\ \A f \in {"total_income", "net_surplus", "savings_rate"} :
         Has(f) <=> RolesResolved
    /\ \A f \in {"total_income", "total_expenses", "net_surplus", "savings_rate"} :
         Has(f) => analysis.is_financial_data

C3_Witness ==
  /\ Returned /\ ~RolesResolved
  /\ Has("total_expenses") /\ ~Has("total_income")
  /\ analysis.total_expenses > 0

RoleRenames(map, canonical) == {p \in map : p[2] = canonical}

(* The renames a role needs: none when it resolved to its canonical name   *)
(* or not at all, else its resolved column to the canonical name.          *)
ExpectedRenames(priority) ==
  LET c == RoleColumn(priority)
  IN IF c = "" \/ c = priority[1] THEN {} ELSE {<<c, priority[1]>>}

Priorities == {TypePriority, AmountPriority, CategoryPriority}

(* C4: each role resolves to its canonical column if present, else to the  *)
(* first present name of its fallback list, else stays unresolved; and the *)
(* outcome for a role is the same whether or not a name of another role is *)
(* present.                                                                *)
C4_RolePriority ==
  Returned =>
    /\ rename_map = UNION {ExpectedRenames(p) : p \in Priorities}
    /\ \A p \in Priorities :
         \A q \in Priorities \ {p} :
           \A n \in Range(q) :
             /\ RoleRenames(RenameMap(Range(InCols) \cup {n}), p[1])
                  = RoleRenames(rename_map, p[1])
             /\ RoleRenames(RenameMap(Range(InCols) \ {n}), p[1])
                  = RoleRenames(rename_map, p[1])

(* Two fallbacks of a role present, the later one first in the table: the  *)
(* earlier one of the list is taken.                                       *)
C4_Witness ==
  /\ Returned
  /\ \E p \in Priorities :
       \E i, j \in 2..Len(p) :
         /\ i < j
         /\ <<p[i], p[1]>> \in rename_map
         /\ \E a, b \in DOMAIN InCols : a < b /\ InCols[a] = p[j] /\ InCols[b] = p[i]

(* C5: in a financial table with at least one recognised row, total_income *)
(* is the sum over exactly the rows whose trimmed, lower-cased type is an  *)
(* income word and total_expenses the sum over exactly the rows whose type *)
(* is an expense word; other rows add to neither.                          *)
C5_PartitionByType ==
  (Returned /\ RolesResolved /\ AnyRecognised) =>
    /\ IsRound2(analysis.total_income, AmountSum({r \in RowIds : IsIncomeRow(r)}))
    /\ IsRound2(analysis.total_expenses, AmountSum({r \in RowIds : IsExpenseRow(r)}))
    /\ {r \in RowIds : IsIncomeRow(r) /\ IsExpenseRow(r)} = {}

C5_Witness ==
  /\ Returned /\ RolesResolved
  /\ \E r \in RowIds :
       IsExpenseRow(r) /\ CellOf(r, TypeColumn).up /\ CellOf(r, TypeColumn).pad
         /\ AmountOf(r) # 0
  /\ \E r \in RowIds : ~IsIncomeRow(r) /\ ~IsExpenseRow(r) /\ AmountOf(r) # 0
  /\ analysis.total_expenses > 0

(* A row's category as a label: trimmed text, "nan" when missing. *)
CategoryLabel(r) ==
  LET c == CellOf(r, CategoryColumn)
  IN CASE c.k = "nan" -> Str("nan")
       [] c.k = "num" -> NumStr(c.n)
       [] OTHER -> [c EXCEPT !.pad = FALSE]

EbcKeys == {analysis.expense_by_category[i].category :
              i \in DOMAIN analysis.expense_by_category}

(* C6: in a financial table with no recognised income or expense row every *)
(* row is an expense row: total_income is 0, total_expenses is the sum of  *)
(* all amounts, and expense_by_category (category resolved) covers all     *)
(* rows.                                                                   *)
C6_AllRowsAsExpenses ==
  (Returned /\ RolesResolved /\ ~AnyRecognised) =>
    /\ analysis.total_income = 0
    /\ IsRound2(analysis.total_expenses, AmountSum(RowIds))
    /\ CategoryColumn # "" =>
         /\ EbcKeys = {CategoryLabel(r) : r \in RowIds}
         /\ Len(analysis.expense_by_category) = Cardinality(EbcKeys)
         /\ \A i \in DOMAIN analysis.expense_by_category :
              IsRound2(analysis.expense_by_category[i].amount,
                       AmountSum({r \in RowIds :
                                    CategoryLabel(r)
                                      = analysis.expense_by_category[i].category}))

C6_Witness ==
  /\ Returned /\ RolesResolved /\ ~AnyRecognised
  /\ CategoryColumn # ""
  /\ Len(InRows) >= 2
  /\ \E r \in RowIds : CellOf(r, CategoryColumn) = NaN /\ AmountOf(r) # 0
  /\ analysis.total_expenses > 0

(* C7: net_surplus is total_income - total_expenses of the same summary,   *)
(* rounded to two decimals.                                                *)
C7_NetSurplus ==
  (Returned /\ RolesResolved) =>
    IsRound2(analysis.net_surplus, analysis.total_income - analysis.total_expenses)

C7_Witness ==
  /\ Returned /\ RolesResolved
  /\ analysis.total_income > 0 /\ analysis.total_expenses > 0
  /\ analysis.net_surplus < 0
  /\ AmountSum({r \in RowIds : IsIncomeRow(r)}) % 10 # 0

(* C8: savings_rate is net_surplus / total_income * 100 rounded to two     *)
(* decimals when total_income > 0, and 0 when total_income <= 0.           *)
C8_SavingsRate ==
  (Returned /\ RolesResolved) =>
    /\ analysis.total_income > 0 =>
         IsPercent2(analysis.savings_rate, analysis.net_surplus, analysis.total_income)
    /\ analysis.total_income <= 0 => analysis.savings_rate = 0

C8_Witness ==
  /\ Returned /\ RolesResolved
  /\ analysis.total_income > 0
  /\ analysis.savings_rate % 100 # 0
  /\ analysis.savings_rate * analysis.total_income # analysis.net_surplus * 10000

(* expense_by_category was computed: a financial table with a category    *)
(* column, or a generic fallback aggregation.                              *)
EbcComputed ==
  Returned /\ ((RolesResolved /\ CategoryColumn # "") \/ Has("generic_chart_label"))

EbcTotal ==
  SumSeq([i \in DOMAIN analysis.expense_by_category |->
            analysis.expense_by_category[i].amount])

(* C9: wherever expense_by_category was computed, its values sum to        *)
(* total_expenses within 0.01 per category, rows with a missing category   *)
(* or grouping value included.                                             *)
C9_CategorySumIsTotal ==
  EbcComputed =>
    /\ EbcTotal - analysis.total_expenses <= 10 * Len(analysis.expense_by_category)
    /\ analysis.total_expenses - EbcTotal <= 10 * Len(analysis.expense_by_category)

(* part / whole, as a percentage rounded to two decimals, is above 30:     *)
(* the share itself is above 30.005% (a tie at 30.005 rounds to 30.00).    *)
ShareAbove30(part, whole) == part * 100000 > 30005 * whole

FlaggedCategories ==
  {analysis.overspending_flags[i].category : i \in DOMAIN analysis.overspending_flags}

(* The flags are exactly the categories of expense_by_category whose       *)
(* rounded share of total_expenses is above 30, each with that share.      *)
FlagsMatchShares ==
  /\ \A i \in DOMAIN analysis.expense_by_category :
       analysis.expense_by_category[i].category \in FlaggedCategories
         <=> ShareAbove30(analysis.expense_by_category[i].amount,
                          analysis.total_expenses)
  /\ \A i \in DOMAIN analysis.overspending_flags :
       /\ analysis.overspending_flags[i].percentage > 3000
       /\ \E k \in DOMAIN analysis.expense_by_category :
            /\ analysis.expense_by_category[k].category
                 = analysis.overspending_flags[i].category
            /\ analysis.expense_by_category[k].amount
                 = analysis.overspending_flags[i].amount
            /\ IsPercent2(analysis.overspending_flags[i].percentage,
                          analysis.expense_by_category[k].amount,
                          analysis.total_expenses)

(* C10 as stated: in every summary with total_expenses > 0 the flags are   *)
(* exactly the categories with a share above 30; with total_expenses <= 0  *)
(* there are none.                                                         *)
C10_FlagsInEverySummary ==
  Returned =>
    /\ analysis.total_expenses > 0 => FlagsMatchShares
    /\ analysis.total_expenses <= 0 => analysis.overspending_flags = <<>>

(* C10, amended: that holds in every summary of a financial table (type    *)
(* and amount resolved); a generic fallback summary has no flags at all.   *)
C10_FlagsInFinancialSummary ==
  Returned =>
    /\ (RolesResolved /\ analysis.total_expenses > 0) => FlagsMatchShares
    /\ analysis.total_expenses <= 0 => analysis.overspending_flags = <<>>
    /\ ~RolesResolved => analysis.overspending_flags = <<>>

(* One category flagged, another at exactly 30% and not flagged. *)
C10_Witness ==
  /\ Returned /\ RolesResolved /\ analysis.total_expenses > 0
  /\ analysis.overspending_flags # <<>>
  /\ \E i \in DOMAIN analysis.expense_by_category :
       /\ analysis.expense_by_category[i].amount * 100 = 30 * analysis.total_expenses
       /\ analysis.expense_by_category[i].category \notin FlaggedCategories

(* The rows of the expense partition: the rows of a recognised expense     *)
(* type, or every row when no row has a recognised type.                   *)
ExpenseRows ==
  IF AnyRecognised THEN {r \in RowIds : IsExpenseRow(r)} ELSE RowIds

Ebc == analysis.expense_by_category

NonIncreasing(entries) ==
  \A i, j \in DOMAIN entries : i < j => entries[i].amount >= entries[j].amount

(* C11: with type, amount and category resolved, expense_by_category has   *)
(* exactly one entry per distinct category label among the expense rows,   *)
(* valued at the rounded sum of the amounts of the expense rows with that  *)
(* label, in non-increasing order of amount; no other row contributes.     *)
C11_OneEntryPerExpenseLabel ==
  (Returned /\ RolesResolved /\ CategoryColumn # "") =>
    /\ EbcKeys = {CategoryLabel(r) : r \in ExpenseRows}
    /\ Len(Ebc) = Cardinality(EbcKeys)
    /\ \A i \in DOMAIN Ebc :
         IsRound2(Ebc[i].amount,
                  AmountSum({r \in ExpenseRows : CategoryLabel(r) = Ebc[i].category}))
    /\ NonIncreasing(Ebc)

(* Two category values that differ only by surrounding whitespace. *)
SameTrimmed(a, b) ==
  a.k = "str" /\ b.k = "str" /\ a # b /\ [a EXCEPT !.pad = FALSE] = [b EXCEPT !.pad = FALSE]

(* C12: category labels are trimmed before aggregation: no key of          *)
(* expense_by_category has surrounding whitespace, and expense rows whose  *)
(* categories differ only by surrounding whitespace are summed under one   *)
(* trimmed label.                                                          *)
C12_LabelsTrimmed ==
  (Returned /\ RolesResolved /\ CategoryColumn # "") =>
    /\ \A k \in EbcKeys : ~k.pad
    /\ \A r1, r2 \in ExpenseRows :
         SameTrimmed(CellOf(r1, CategoryColumn), CellOf(r2, CategoryColumn)) =>
           \E i \in DOMAIN Ebc :
             /\ Ebc[i].category = CategoryLabel(r1)
             /\ IsRound2(Ebc[i].amount,
                         AmountSum({r \in ExpenseRows :
                                      CategoryLabel(r) = CategoryLabel(r1)}))

(* The rows whose amount is a number, and the sum of their amounts over    *)
(* the rows of S: what S adds up to when rows with a blank or non-numeric  *)
(* amount add nothing.                                                     *)
CleanRows == {r \in RowIds : CellOf(r, AmountColumn).k \in {"num", "numstr"}}

CleanSum(S) ==
  SumSeq([r \in RowIds |->
            IF r \in S \cap CleanRows THEN CellOf(r, AmountColumn).n ELSE 0])

(* The expense rows aggregated under the key k of expense_by_category:     *)
(* those whose category, as the aggregation reads it, is k.                *)
GroupedUnder(k) ==
  {r \in ExpenseRows :
     IF AnyRecognised THEN CellOf(r, CategoryColumn) = k ELSE CategoryLabel(r) = k}

FirstGroupingColumn == CHOOSE j \in GroupingColumns : \A i \in GroupingColumns : j <= i

(* The column names that several columns of the table carry. *)
RepeatedNames ==
  {InCols[i] : i \in {x \in DOMAIN InCols : \E y \in DOMAIN InCols : y # x /\ InCols[y] = InCols[x]}}

C14_OnlyParseFails ==
  /\ pc # "raised"
  /\ pc = "rejected" => ParseFails(content)

(* A parsed table with no type column, no amount column and no numeric     *)
(* column.                                                                 *)
NoRolesNoNumbers ==
  /\ content.kind = "csv"
  /\ TypeColumn = "" /\ AmountColumn = ""
  /\ \A j \in DOMAIN InCols : ~NumericDtype(j)

(* C15: such a table gets a summary, without an error, in which            *)
(* is_financial_data is false, total_rows is the number of data rows, and  *)
(* expense_by_category and overspending_flags are empty.                   *)
C15_GracefulDegradation ==
  (NoRolesNoNumbers /\ pc \in {"done", "raised"}) =>
    /\ Returned
    /\ ~analysis.is_financial_data
    /\ analysis.total_rows = Len(InRows)
    /\ Ebc = <<>>
    /\ analysis.overspending_flags = <<>>

(* Two rows of text in two columns. *)
C15_Witness ==
  /\ Returned /\ NoRolesNoNumbers
  /\ Len(InCols) = 2 /\ Len(InRows) = 2
  /\ analysis.total_rows = 2
  /\ \A r \in RowIds : \A j \in DOMAIN InCols : InRows[r][j].k = "str"

HeaderOnly == content.kind = "csv" /\ InRows = <<>>

(* C16: a header-only input is accepted: it gets a summary with            *)
(* total_rows = 0, empty expense_by_category and overspending_flags, and,  *)
(* with type and amount present, total_income = total_expenses =           *)
(* net_surplus = 0 and savings_rate = 0.                                   *)
C16_HeaderOnlyAccepted ==
  (HeaderOnly /\ pc \in {"rejected", "raised", "done"}) =>
    /\ Returned
    /\ analysis.total_rows = 0
    /\ Ebc = <<>>
    /\ analysis.overspending_flags = <<>>
    /\ RolesResolved =>
         /\ analysis.total_income = 0 /\ analysis.total_expenses = 0
         /\ analysis.net_surplus = 0 /\ analysis.savings_rate = 0

(* parse_csv was invoked on the content of the request. *)
ParseCsvInvoked ==
  pc \in {"parsed", "raised", "done", "stored"} \/ detail = FAILED_TO_PARSE

NothingStored == upload_dir = <<>> /\ uploaded_files = <<>> /\ chat_messages = <<>>

(* C17: a zero-byte upload is rejected with an error before parsing is     *)
(* attempted (parse_csv is never invoked on it), and the rejection stores  *)
(* no file, no file record and no chat message.                            *)
C17_ZeroBytesRejectedUnparsed ==
  content = ZeroBytes =>
    /\ pc = "rejected"
    /\ ~ParseCsvInvoked
    /\ NothingStored

(* The table has a numeric column when the fallback is considered: a       *)
(* column of numbers, or the amount column, which coercion has made        *)
(* numeric whatever it held.                                               *)
HasNumericColumn == AmountColumn # "" \/ \E j \in DOMAIN InCols : NumericDtype(j)

(* C18: the generic fallback aggregation is produced only when type and    *)
(* amount did not both resolve and the table has a numeric column; the     *)
(* financial aggregation and the fallback never both run, so no summary    *)
(* has both generic_chart_label and total_income.                          *)
C18_FallbackExcludesFinancial ==
  Returned =>
    /\ Has("generic_chart_label") => (~RolesResolved /\ HasNumericColumn)
    /\ RolesResolved => (Has("total_income") /\ ~Has("generic_chart_label"))
    /\ ~(Has("generic_chart_label") /\ Has("total_income"))

(* A fallback over a table whose amount resolved while its type did not. *)
C18_Witness ==
  /\ Returned /\ Has("generic_chart_label") /\ ~Has("total_income")
  /\ AmountColumn # "" /\ TypeColumn = ""
  /\ Len(Ebc) >= 2

(* The name a column has once the roles are resolved. *)
ResolvedName(name) ==
  CASE name = TypeColumn -> "type"
    [] name = AmountColumn -> "amount"
    [] name = CategoryColumn -> "category"
    [] OTHER -> name

(* The generic fallback is considered: the financial aggregation did not   *)
(* run and there is a column to sum.                                       *)
FallbackConsidered == Returned /\ ~RolesResolved /\ FallbackTarget # ""

(* C19: the fallback groups by the first column in table order, other than *)
(* the target, with fewer than 20 distinct values; when there is none it   *)
(* aggregates nothing: expense_by_category stays empty, generic_chart_label *)
(* and total_expenses are absent and is_financial_data stays false.        *)
C19_FirstLowCardinalityColumn ==
  FallbackConsidered =>
    IF GroupingColumns # {}
    THEN /\ Has("generic_chart_label")
         /\ analysis.generic_chart_label[2] = ResolvedName(InCols[FirstGroupingColumn])
         /\ EbcKeys = {InRows[r][FirstGroupingColumn] : r \in RowIds} \ {NaN}
         /\ Len(Ebc) = Cardinality(EbcKeys)
    ELSE /\ Ebc = <<>>
         /\ ~Has("generic_chart_label") /\ ~Has("total_expenses")
         /\ ~analysis.is_financial_data

(* A column with exactly 20 distinct values stands before the grouping     *)
(* column and is passed over.                                              *)
C19_Witness ==
  /\ FallbackConsidered /\ GroupingColumns # {}
  /\ \E j \in DOMAIN InCols :
       /\ j < FirstGroupingColumn
       /\ InCols[j] # FallbackTarget
       /\ DistinctValues(j) = 20
  /\ analysis.generic_chart_label[2] = InCols[FirstGroupingColumn]
  /\ Len(Ebc) > 1

(* What a row adds to a sum of the target column: its number, nothing when *)
(* the cell is blank or (in a coerced amount column) not a number.         *)
TargetOf(r) ==
  LET c == CellOf(r, FallbackTarget)
  IN IF c.k \in {"num", "numstr"} THEN c.n ELSE 0

TargetSum(S) == SumSeq([r \in RowIds |-> IF r \in S THEN TargetOf(r) ELSE 0])

(* C20: when the fallback finds a grouping column, its target is the       *)
(* resolved amount column if there is one, else the first numeric column;  *)
(* total_expenses is the rounded sum of the target over all rows,          *)
(* expense_by_category holds the rounded per-group sums of the target in   *)
(* non-increasing order, is_financial_data is true and generic_chart_label *)
(* is "<target> by <grouping>" in the resolved column names.               *)
C20_FallbackSummary ==
  (FallbackConsidered /\ GroupingColumns # {}) =>
    /\ Has("generic_chart_label")
    /\ analysis.generic_chart_label
         = <<ResolvedName(FallbackTarget), ResolvedName(InCols[FirstGroupingColumn])>>
    /\ Has("total_expenses")
    /\ IsRound2(analysis.total_expenses, TargetSum(RowIds))
    /\ EbcKeys = {InRows[r][FirstGroupingColumn] : r \in RowIds} \ {NaN}
    /\ \A i \in DOMAIN Ebc :
         IsRound2(Ebc[i].amount,
                  TargetSum({r \in RowIds :
                               InRows[r][FirstGroupingColumn] = Ebc[i].category}))
    /\ NonIncreasing(Ebc)
    /\ analysis.is_financial_data

(* The amount column is the target although a numeric column stands        *)
(* before it; two groups with different sums.                              *)
C20_Witness ==
  /\ FallbackConsidered /\ GroupingColumns # {}
  /\ AmountColumn # "" /\ AmountColumn # "amount"
  /\ \E j \in DOMAIN InCols : NumericDtype(j) /\ j < ColIdx(InCols, AmountColumn)
  /\ analysis.generic_chart_label[1] = "amount"
  /\ Len(Ebc) = 2 /\ Ebc[1].amount > Ebc[2].amount
  /\ analysis.total_expenses > 0

(* The table of the example: columns widget, qty_sold, region in that      *)
(* order, qty_sold the only numeric column, 8 distinct regions.            *)
WidgetTable ==
  /\ content.kind = "csv"
  /\ InCols = <<"widget", "qty_sold", "region">>
  /\ NumericDtype(2) /\ ~NumericDtype(1) /\ ~NumericDtype(3)
  /\ DistinctValues(3) = 8

GroupedByRegion ==
  /\ analysis.is_financial_data
  /\ Has("generic_chart_label")
  /\ analysis.generic_chart_label = <<"qty_sold", "region">>
  /\ EbcKeys = {InRows[r][3] : r \in RowIds} \ {NaN}

(* C21 as stated: every such table is grouped by region with target        *)
(* qty_sold: is_financial_data is true, generic_chart_label is             *)
(* "qty_sold by region" and the keys of expense_by_category are the        *)
(* region values.                                                          *)
C21_WidgetTableByRegion ==
  (Returned /\ WidgetTable) => GroupedByRegion

(* C21, amended: that holds when widget has 20 or more distinct values;    *)
(* with fewer, widget stands first among the candidates and the table is   *)
(* grouped by widget.                                                      *)
C21_WidgetTableByFirstCandidate ==
  (Returned /\ WidgetTable) =>
    /\ DistinctValues(1) >= 20 => GroupedByRegion
    /\ DistinctValues(1) < 20 =>
         /\ analysis.is_financial_data
         /\ analysis.generic_chart_label = <<"qty_sold", "widget">>
         /\ EbcKeys = {InRows[r][1] : r \in RowIds} \ {NaN}

C21_Witness ==
  /\ Returned /\ WidgetTable
  /\ DistinctValues(1) >= 20
  /\ GroupedByRegion
  /\ Len(Ebc) = 8

(* The columns named exactly date, and the day numbers of the values of    *)
(* column j that parse as a date.                                          *)
DateColumns == {j \in DOMAIN InCols : InCols[j] = "date"}

ParseableDays(j) ==
  {InRows[r][j].n : r \in {x \in RowIds :
                             \/ InRows[x][j].k = "num"
                             \/ InRows[x][j].k = "str" /\ InRows[x][j].s = "day"
                                  /\ InRows[x][j].n > 0}}

(* C22: date_range is present if and only if the table has a column named  *)
(* exactly date with at least one value that parses as a date; then start  *)
(* is the earliest and end the latest parseable date, unparseable values   *)
(* being ignored.  No other column name serves as the date.                *)
C22_DateRangeIffParseable ==
  Returned =>
    /\ Has("date_range") <=> \E j \in DateColumns : ParseableDays(j) # {}
    /\ Has("date_range") =>
         \E j \in DateColumns :
           /\ ~analysis.date_range[1].nat /\ ~analysis.date_range[2].nat
           /\ analysis.date_range[1].day \in ParseableDays(j)
           /\ analysis.date_range[2].day \in ParseableDays(j)
           /\ \A d \in ParseableDays(j) :
                analysis.date_range[1].day <= d /\ d <= analysis.date_range[2].day

(* C24: the summary is stored verbatim: the analytics_json of the file     *)
(* record an upload creates is the summary compute_analytics returned,     *)
(* which nothing changes between its creation and its persistence.         *)
C24_StoredVerbatim ==
  [][(pc = "done" /\ pc' = "stored") =>
       /\ analysis' = analysis
       /\ Len(uploaded_files') = Len(uploaded_files) + 1
       /\ uploaded_files'[Len(uploaded_files')].analytics_json = analysis]_vars

(* C25: compute_analytics does not mutate the table it is given: after the *)
(* call the caller's table has the column names and the cell values that   *)
(* parse_csv gave it, with or without a renaming.                          *)
C25_TableNotMutated ==
  Returned =>
    /\ df.cols = InCols
    /\ df.rows = InRows

(* flags is a subsequence of entries: the same entries in the same order. *)
InOrderOf(flags, entries) ==
  \E pos \in [DOMAIN flags -> DOMAIN entries] :
    /\ \A i, j \in DOMAIN flags : i < j => pos[i] < pos[j]
    /\ \A i \in DOMAIN flags :
         /\ flags[i].category = entries[pos[i]].category
         /\ flags[i].amount = entries[pos[i]].amount

-----------------------------------------------------------------------------
(* register (src/auth.py): requests run in the server's thread pool, so    *)
(* the query for an existing user and the insert of the new one are two    *)
(* steps, and steps of several requests interleave.                        *)

MIN_USERNAME == 3
MIN_PASSWORD == 4

Usernames == {<<"a", "l">>, <<"b", "o", "b">>, <<"e", "v", "e">>}
Passwords == {<<"a", "b", "c">>, <<"a", "b", "c", "d">>}

(* db.query(User).filter(User.username == username).first() *)
get_user_by_username(username) ==
  SelectSeq(users, LAMBDA u : u.username = username)

(* A users table without the UNIQUE constraint. *)
IntegrityErrorNever(username) == FALSE

(* username is UNIQUE: inserting one that is there raises IntegrityError. *)
IntegrityError(username) == \E i \in DOMAIN users : users[i].username = username

(* create_token(user_id, username) *)
create_token(id, username) == [user_id |-> id, username |-> username]

(* Lines 67-74: the request arrives; a short username or password is       *)
(* refused with 400, a username that is found with 409.                    *)
RegisterCheck(r) ==
  /\ reg[r].pc = "new"
  /\ \E username \in Usernames, password \in Passwords :
       LET req == [reg[r] EXCEPT !.username = username, !.password = password]
           existing == get_user_by_username(username)
       IN reg' = [reg EXCEPT ![r] =
            IF Len(username) < MIN_USERNAME \/ Len(password) < MIN_PASSWORD
            THEN [req EXCEPT !.pc = "failed", !.status = 400]
            ELSE IF existing # <<>>
            THEN [req EXCEPT !.pc = "failed", !.status = 409]
            ELSE [req EXCEPT !.pc = "checked"]]
  /\ UNCHANGED <<content, df, analysis, rename_map, pc, filename, detail,
                 upload_dir, uploaded_files, chat_messages,
                 user_id, now, requests, response, users>>

(* Lines 76-93: the password is hashed and the user inserted; an error of  *)
(* the commit is answered with 500, a new row with the token of its id.    *)
RegisterCommit(r) ==
  /\ reg[r].pc = "checked"
  /\ IF IntegrityError(reg[r].username)
     THEN /\ reg' = [reg EXCEPT ![r].pc = "failed", ![r].status = 500]
          /\ users' = users
     ELSE LET id == Len(users) + 1
          IN /\ users' = Append(users, [id |-> id, username |-> reg[r].username,
                                        password_hash |-> <<"hash">> \o reg[r].password])
             /\ reg' = [reg EXCEPT ![r].pc = "done", ![r].status = 200,
                                   ![r].token = create_token(id, reg[r].username)]
  /\ UNCHANGED <<content, df, analysis, rename_map, pc, filename, detail,
                 upload_dir, uploaded_files, chat_messages,
                 user_id, now, requests, response>>

RegisterNext == \E r \in RegisterIds : RegisterCheck(r) \/ RegisterCommit(r)

RegisterSpec == Init /\ [][RegisterNext]_vars

-----------------------------------------------------------------------------
(* C23: the engine is deterministic: two uploads of byte-identical content *)
(* have identical summaries (fields, values and orderings), whenever they  *)
(* ran, whatever ran before them and whoever sent them.  The stored        *)
(* analytics_json is the summary with the key _render_dashboard added, so  *)
(* equal summaries are equal rows; the summary just returned is compared   *)
(* without that key.                                                       *)
SummaryOf(a) == [a EXCEPT !.keys = @ \ {"_render_dashboard"}]

C23_Deterministic ==
  /\ \A i \in DOMAIN uploaded_files, j \in DOMAIN uploaded_files :
       upload_dir[i].bytes = upload_dir[j].bytes
         => SummaryOf(uploaded_files[i].analytics_json)
              = SummaryOf(uploaded_files[j].analytics_json)
  /\ Returned =>
       \A i \in DOMAIN uploaded_files :
         upload_dir[i].bytes = content
           => SummaryOf(uploaded_files[i].analytics_json) = analysis

(* C26: a rejected upload leaves all stored state unchanged: the step that *)
(* rejects a request, for a file name that does not end in .csv or for a   *)
(* content that parse_csv fails on, writes no file, creates no             *)
(* uploaded-file record and adds no chat message, for any user.            *)
NameEndsWithCsv == filename.ext = "csv"

RejectedForNameOrParse ==
  /\ pc = "rejected"
  /\ \/ ~NameEndsWithCsv
     \/ content.kind # "csv"

C26_RejectedLeavesStateUnchanged ==
  [][RejectedForNameOrParse' /\ pc = "idle"
       => UNCHANGED <<upload_dir, uploaded_files, chat_messages>>]_vars

(* A request was rejected while other uploads are stored. *)
C26_Witness ==
  /\ RejectedForNameOrParse
  /\ content.kind # "csv"
  /\ uploaded_files # <<>>
  /\ chat_messages # <<>>

(* C27: a successful upload adds exactly one uploaded-file record, owned   *)
(* by the uploading user, and exactly two chat messages of that user, in   *)
(* this order: the user's "Uploaded file: <filename>" and the assistant's  *)
(* analysis with the summary embedded; also when the auto-analysis is      *)
(* unavailable or raises (the insight is then a placeholder).              *)
Embeds(data, a) == a.keys \subseteq data.keys /\ [data EXCEPT !.keys = a.keys] = a

OneRecordTwoMessages ==
  LET nf == Len(uploaded_files)
      nm == Len(chat_messages)
  IN /\ Len(uploaded_files') = nf + 1
     /\ SubSeq(uploaded_files', 1, nf) = uploaded_files
     /\ uploaded_files'[nf + 1].user_id = user_id
     /\ uploaded_files'[nf + 1].original_filename = filename
     /\ Len(chat_messages') = nm + 2
     /\ SubSeq(chat_messages', 1, nm) = chat_messages
     /\ chat_messages'[nm + 1].user_id = user_id
     /\ chat_messages'[nm + 1].role = "user"
     /\ chat_messages'[nm + 1].about = filename
     /\ chat_messages'[nm + 2].user_id = user_id
     /\ chat_messages'[nm + 2].role = "assistant"
     /\ chat_messages'[nm + 2].about = filename
     /\ chat_messages'[nm + 2].ai_insight # ""
     /\ Embeds(chat_messages'[nm + 2].dashboard_data, analysis)

C27_OneRecordTwoMessages ==
  [][pc = "done" /\ pc' # "done" => pc' = "stored" /\ OneRecordTwoMessages]_vars

(* An upload is stored with the placeholder insight, after an upload of    *)
(* another user.                                                           *)
C27_Witness ==
  /\ pc = "stored"
  /\ Len(chat_messages) >= 4
  /\ chat_messages[Len(chat_messages)].ai_insight = SKIPPED
  /\ chat_messages[Len(chat_messages)].role = "assistant"
  /\ chat_messages[Len(chat_messages)].user_id = user_id
  /\ \E i \in DOMAIN uploaded_files : uploaded_files[i].user_id # user_id

(* C28: user isolation: every read operation returns or uses only rows of  *)
(* its caller; a file_id of another user's file is answered as a file_id   *)
(* of no file (404 from get_file and generate_report, no analytics context *)
(* in chat); clear_history removes the caller's messages and no others.    *)
RowsOf(q) == {q[i] : i \in DOMAIN q}

OwnedByCaller(file_id) ==
  /\ file_id \in DOMAIN uploaded_files
  /\ uploaded_files[file_id].user_id = response.caller

AnotherUsersFile(file_id) ==
  /\ file_id \in DOMAIN uploaded_files
  /\ uploaded_files[file_id].user_id # response.caller

OnlyCallersRows ==
  /\ \A f \in RowsOf(response.files) : f.user_id = response.caller
  /\ \A m \in RowsOf(response.messages) : m.user_id = response.caller

ForeignAsMissing ==
  /\ response.op \in {"get_file", "generate_report"} /\ response.status # 400
       => (response.status = 404 <=> ~OwnedByCaller(response.file_id))
  /\ response.op \in {"get_file", "generate_report", "chat"}
       /\ ~OwnedByCaller(response.file_id)
       => response.files = <<>>

MessagesOf(q, u) == SelectSeq(q, LAMBDA m : m.user_id = u)

(* A step that serves a read operation (a new upload request moves pc). *)
ReadServed == requests' # requests /\ pc' = pc

ClearsOnlyCallers ==
  ReadServed /\ response'.op = "clear_history"
    => /\ MessagesOf(chat_messages', response'.caller) = <<>>
       /\ \A u \in Users \ {response'.caller} :
            MessagesOf(chat_messages', u) = MessagesOf(chat_messages, u)

C28_UserIsolation ==
  [][/\ ReadServed => OnlyCallersRows' /\ ForeignAsMissing'
     /\ ClearsOnlyCallers]_vars

(* get_file was asked for a file of another user and answered 404. *)
C28_Witness ==
  /\ response.op = "get_file"
  /\ AnotherUsersFile(response.file_id)
  /\ response.status = 404
  /\ \E m \in RowsOf(chat_messages) : m.user_id # response.caller

(* C29: under any interleaving of register requests, no two user records   *)
(* share a username and at most one request for a username gets a token;   *)
(* a request for a username that is taken, or with a username shorter than *)
(* 3 or a password shorter than 4 characters, creates no user record and   *)
(* gets no token: every record belongs to the one request that holds the   *)
(* token of its id, and that request was valid.                            *)
GotToken(r) == reg[r].token # NoToken

TooShort(r) == Len(reg[r].username) < 3 \/ Len(reg[r].password) < 4

C29_RegisterOncePerUsername ==
  /\ \A i \in DOMAIN users, j \in DOMAIN users :
       users[i].username = users[j].username => i = j
  /\ \A r \in RegisterIds, q \in RegisterIds :
       GotToken(r) /\ GotToken(q) /\ reg[r].username = reg[q].username => r = q
  /\ \A r \in RegisterIds :
       reg[r].pc # "new" /\ TooShort(r) => ~GotToken(r) /\ reg[r].status = 400
  /\ \A r \in RegisterIds :
       reg[r].status \in {400, 409, 500} => ~GotToken(r)
  /\ \A i \in DOMAIN users :
       \E r \in RegisterIds :
         /\ reg[r].token = [user_id |-> users[i].id, username |-> users[i].username]
         /\ ~TooShort(r)
  /\ Len(users) = Cardinality({r \in RegisterIds : GotToken(r)})

(* Two requests for one username ran interleaved: both found no user, one  *)
(* got the token and the other's insert was refused.                       *)
C29_Witness ==
  \E r \in RegisterIds, q \in RegisterIds :
    /\ reg[r].username = reg[q].username
    /\ GotToken(r)
    /\ reg[q].status = 500
    /\ Len(users) = 1

====
